---- MODULE Spec2Model ----
(***************************************************************************)
(* Model of package multiflag (src/multiflag.go, lines 81-177) and of its  *)
(* driver (src/unnamed/part_000).                                          *)
(*                                                                         *)
(* A Value is a heap object {args, val, isBool}.  The constructors String, *)
(* StringSet, Bool and BoolSet allocate one Value and hand it to a Flagger *)
(* (flag.Var or flg.Var) once for the canonical name and once per alias.   *)
(* The flag package later calls Set through any registered name.  String   *)
(* and StringSet (Bool and BoolSet) run the same newString (newBool) and   *)
(* differ only in the Flagger they pass; the model has one flag set, and   *)
(* "String" and "Bool" stand for either way of reaching it.                *)
(*                                                                         *)
(* The program is sequential: while a constructor runs, the only code that *)
(* executes is the constructor itself, the Flagger it calls and the        *)
(* AliasUsage hook, so the constructor is modelled as a frame that must    *)
(* run to its return before the caller does anything else.  The Flagger    *)
(* holds the Value from its first call on, so the states between two       *)
(* steps of a constructor are states the registrar can observe.            *)
(***************************************************************************)
EXTENDS Integers, Sequences, FiniteSets, TLC

\* ------------------------------------------------------------------ bounds
MaxSet == 2         \* occurrences dispatched by the flag package in a run

\* ------------------------------------------------------------------ inputs
\* Canonical flag names and alias names (the driver's).  A run declares each
\* canonical name at most once and uses each alias name at most once, so the
\* two sets bound the constructor calls and the aliases of a run.
Names == {"verbose", "trace"}
AliasNames == {"v", "t"}
\* The default value and the usage text the program declares a flag with.
DefaultOf(name) == IF name = "verbose" THEN "false" ELSE "none"
UsageOf(name) ==
  IF name = "verbose" THEN "Verbosity. Repeat as necessary"
  ELSE "Trace program sections"
\* Argument payloads handed to Set; "" is what an argument "-t=" carries.
Payloads == {"", "parse"}
\* Functions AliasUsage can point to: the package's own and a caller's.
Hooks == {"default", "custom"}
\* String / StringSet and Bool / BoolSet.
Ctors == {"String", "Bool"}

VARIABLES
  heap,        \* the allocated Values: heap[v] = [args, val, isBool]
  formal,      \* the Flagger's calls in order: [val, name, usage]
  AliasUsage,  \* the package variable AliasUsage (which function it holds)
  frame,       \* the constructor call in progress, or pc = "idle"
  calls,       \* history: the constructor calls made, with their arguments
  log,         \* history: the occurrences dispatched: [name, v, s]
  ret          \* the last method call on a Value and what it returned

vars == <<heap, formal, AliasUsage, frame, calls, log, ret>>

\* ------------------------------------------------------------ the Value
\* &Value{val: value}: args is nil, isBool is false.
NewValue(value) == [args |-> <<>>, val |-> value, isBool |-> FALSE]

\* func (v *Value) String() string
String(r) == r.val

\* func (v *Value) IsBoolFlag() bool
IsBoolFlag(r) == r.isBool

\* Mutant: Args without the test of isBool.
ArgsIgnoresMode(r) == r.args

\* func (v *Value) Args() []string
Args(r) == IF r.isBool THEN <<>> ELSE r.args

\* func (v *Value) NArg() int
NArg(r) == Len(r.args)

\* Mutants of Set.
SetPrepends(h, v, s) ==
  [heap |-> [h EXCEPT ![v].args = <<s>> \o @], err |-> "nil"]
SetOverwritesVal(h, v, s) ==
  [heap |-> [h EXCEPT ![v].args = Append(@, s), ![v].val = s], err |-> "nil"]
SetRejectsEmpty(h, v, s) ==
  IF s = "" THEN [heap |-> h, err |-> "empty argument"]
  ELSE [heap |-> [h EXCEPT ![v].args = Append(@, s)], err |-> "nil"]
SetShared(h, v, s) ==
  [heap |-> [w \in 1..Len(h) |-> [h[w] EXCEPT !.args = Append(@, s)]],
   err |-> "nil"]

\* func (v *Value) Set(s string) error: the heap after the call and the
\* error returned.
Set(h, v, s) ==
  [heap |-> [h EXCEPT ![v].args = Append(@, s)], err |-> "nil"]

\* ------------------------------------------------------- the alias hook
\* Calling the function AliasUsage holds.  "default" is the package's own
\* function literal; "custom" stands for a caller's replacement, which
\* uses both of its arguments.
ApplyHook(hook, orig, alias) ==
  IF hook = "default" THEN "Alias for " \o orig
  ELSE "-" \o alias \o " is short for -" \o orig

\* ------------------------------------------------------- the registrar
\* The names the flag set holds.
Registered == {formal[i].name : i \in 1..Len(formal)}

\* The Value the flag set dispatches an occurrence of name to.
Lookup(name) ==
  LET i == CHOOSE j \in 1..Len(formal) : formal[j].name = name
  IN formal[i].val

\* The Values the registrar holds.
Held == {formal[i].val : i \in 1..Len(formal)}

\* fn(val, name, usage): the Flagger records the flag.
Flagger(f, val, name, usage) ==
  Append(f, [val |-> val, name |-> name, usage |-> usage])

\* Sequences of distinct names drawn from S.
AliasSeqs(S) ==
  {a \in UNION {[1..k -> S] : k \in 0..Cardinality(S)} :
     \A i, j \in 1..Len(a) : i # j => a[i] # a[j]}

Idle ==
  [pc |-> "idle", fn |-> "", v |-> 0, name |-> "", usage |-> "",
   aliases |-> <<>>, i |-> 0]

NoRet == [op |-> "none", v |-> 0, val |-> ""]

Init ==
  /\ heap = <<>>
  /\ formal = <<>>
  /\ AliasUsage = "default"
  /\ frame = Idle
  /\ calls = <<>>
  /\ log = <<>>
  /\ ret = NoRet

\* ------------------------------------------------------- constructors
\* The unexported function a constructor runs.
FnOf(ctor) == IF ctor = "String" THEN "newString" ELSE "newBool"

\* String / StringSet / Bool / BoolSet are entered and newString allocates
\* v := &Value{val: value}.
Construct(ctor, name, value, usage, aliases) ==
  /\ frame.pc = "idle"
  /\ heap' = Append(heap, NewValue(value))
  /\ frame' = [pc |-> "name", fn |-> FnOf(ctor), v |-> Len(heap) + 1,
               name |-> name, usage |-> usage, aliases |-> aliases, i |-> 1]
  /\ calls' = Append(calls,
       [ctor |-> ctor, name |-> name, value |-> value, usage |-> usage,
        aliases |-> aliases, v |-> Len(heap) + 1, hook |-> AliasUsage,
        base |-> Len(formal), done |-> FALSE])
  /\ UNCHANGED <<formal, AliasUsage, log, ret>>

\* fn(v, name, usage)
RegisterName ==
  /\ frame.pc = "name"
  /\ formal' = Flagger(formal, frame.v, frame.name, frame.usage)
  /\ frame' = [frame EXCEPT !.pc = "aliases"]
  /\ UNCHANGED <<heap, AliasUsage, calls, log, ret>>

\* Mutants of the loop body: a Value of its own for each alias; the hook's
\* arguments swapped.
AliasFreshValue(h, f, fr, hook) ==
  [heap |-> Append(h, NewValue(h[fr.v].val)),
   formal |-> Flagger(f, Len(h) + 1, fr.aliases[fr.i],
                      ApplyHook(hook, fr.name, fr.aliases[fr.i]))]
AliasSwapped(h, f, fr, hook) ==
  [heap |-> h,
   formal |-> Flagger(f, fr.v, fr.aliases[fr.i],
                      ApplyHook(hook, fr.aliases[fr.i], fr.name))]

\* The loop body: fn(v, alias, AliasUsage(name, alias)).
AliasBody(h, f, fr, hook) ==
  [heap |-> h,
   formal |-> Flagger(f, fr.v, fr.aliases[fr.i],
                      ApplyHook(hook, fr.name, fr.aliases[fr.i]))]

\* for _, alias := range aliases { ... }: one iteration.
RegisterAlias ==
  /\ frame.pc = "aliases"
  /\ frame.i <= Len(frame.aliases)
  /\ LET r == AliasBody(heap, formal, frame, AliasUsage)
     IN /\ heap' = r.heap
        /\ formal' = r.formal
  /\ frame' = [frame EXCEPT !.i = @ + 1]
  /\ UNCHANGED <<AliasUsage, calls, log, ret>>

\* The constructor call in progress recorded as returned.
Returned(c) == [c EXCEPT ![Len(c)].done = TRUE]

\* newString: return v, to String / StringSet (which return it) or to
\* newBool (which goes on).
ReturnString ==
  /\ frame.pc = "aliases"
  /\ frame.i > Len(frame.aliases)
  /\ IF frame.fn = "newString"
       THEN frame' = Idle /\ calls' = Returned(calls)
       ELSE frame' = [frame EXCEPT !.pc = "isBool"] /\ UNCHANGED calls
  /\ UNCHANGED <<heap, formal, AliasUsage, log, ret>>

\* newBool: v.isBool = true; return v.
ReturnBool ==
  /\ frame.pc = "isBool"
  /\ heap' = [heap EXCEPT ![frame.v].isBool = TRUE]
  /\ frame' = Idle
  /\ calls' = Returned(calls)
  /\ UNCHANGED <<formal, AliasUsage, log, ret>>

\* ----------------------------------------------------------- the hook
\* Mutant: usage text looked up when shown, so an assignment to AliasUsage
\* rewrites the text of the aliases registered so far.
RegenerateUsage(f, c, hook) ==
  [i \in 1..Len(f) |->
     IF \E k \in 1..Len(c) : c[k].name = f[i].name
       THEN f[i]
       ELSE LET k == CHOOSE k \in 1..Len(c) :
                       \E j \in 1..Len(c[k].aliases) : c[k].aliases[j] = f[i].name
            IN [f[i] EXCEPT !.usage = ApplyHook(hook, c[k].name, f[i].name)]]

\* What an assignment to the package variable AliasUsage does to the flags
\* registered so far: nothing, their usage text is a string already made.
OnAssignHook(f, c, hook) == f

\* multiflag.AliasUsage = hook, by the program between two package calls.
AssignAliasUsage(hook) ==
  /\ frame.pc = "idle"
  /\ hook # AliasUsage
  /\ AliasUsage' = hook
  /\ formal' = OnAssignHook(formal, calls, hook)
  /\ UNCHANGED <<heap, frame, calls, log, ret>>

\* --------------------------------------------- flag.Parse's dispatching
\* One occurrence of -name (with payload s) on the command line: the flag
\* package calls Set on the Value registered under name.
Dispatch(name, s) ==
  /\ frame.pc = "idle"
  /\ Len(log) < MaxSet
  /\ name \in Registered
  /\ LET v == Lookup(name)
         r == Set(heap, v, s)
     IN /\ heap' = r.heap
        /\ ret' = [op |-> "Set", v |-> v, val |-> r.err]
        /\ log' = Append(log, [name |-> name, v |-> v, s |-> s])
  /\ UNCHANGED <<formal, AliasUsage, frame, calls>>

\* ------------------------------------------------------- the accessors
\* Mutant: Args hands over the collected arguments and forgets them.
CallArgsDrains(v) ==
  /\ v \in Held
  /\ ret' = [op |-> "Args", v |-> v, val |-> Args(heap[v])]
  /\ heap' = [heap EXCEPT ![v].args = <<>>]
  /\ UNCHANGED <<formal, AliasUsage, frame, calls, log>>

\* v.String(), by the registrar (to show the default) or the program.
CallString(v) ==
  /\ v \in Held
  /\ ret' = [op |-> "String", v |-> v, val |-> String(heap[v])]
  /\ UNCHANGED <<heap, formal, AliasUsage, frame, calls, log>>

\* v.IsBoolFlag(), by the registrar.
CallIsBoolFlag(v) ==
  /\ v \in Held
  /\ ret' = [op |-> "IsBoolFlag", v |-> v, val |-> IsBoolFlag(heap[v])]
  /\ UNCHANGED <<heap, formal, AliasUsage, frame, calls, log>>

\* v.Args(), by the program.
CallArgs(v) ==
  /\ v \in Held
  /\ ret' = [op |-> "Args", v |-> v, val |-> Args(heap[v])]
  /\ UNCHANGED <<heap, formal, AliasUsage, frame, calls, log>>

\* v.NArg(), by the program.
CallNArg(v) ==
  /\ v \in Held
  /\ ret' = [op |-> "NArg", v |-> v, val |-> NArg(heap[v])]
  /\ UNCHANGED <<heap, formal, AliasUsage, frame, calls, log>>

Next ==
  \/ \E ctor \in Ctors, name \in Names \ Registered :
       \E aliases \in AliasSeqs(AliasNames \ Registered) :
         Construct(ctor, name, DefaultOf(name), UsageOf(name), aliases)
  \/ RegisterName
  \/ RegisterAlias
  \/ ReturnString
  \/ ReturnBool
  \/ \E hook \in Hooks : AssignAliasUsage(hook)
  \/ \E name \in Names \cup AliasNames, s \in Payloads : Dispatch(name, s)
  \/ \E v \in 1..Len(heap) : CallString(v)
  \/ \E v \in 1..Len(heap) : CallIsBoolFlag(v)
  \/ \E v \in 1..Len(heap) : CallArgs(v)
  \/ \E v \in 1..Len(heap) : CallNArg(v)

Spec == Init /\ [][Next]_vars

\* ------------------------------------------------- history, read back
\* The payloads Set was called with on Value v, in call order.
RECURSIVE DeliveredUpTo(_, _)
DeliveredUpTo(v, k) ==
  IF k = 0 THEN <<>>
  ELSE IF log[k].v = v THEN Append(DeliveredUpTo(v, k - 1), log[k].s)
       ELSE DeliveredUpTo(v, k - 1)
Delivered(v) == DeliveredUpTo(v, Len(log))

\* The constructor call that declared name, as canonical name or as alias.
CallOf(name) ==
  CHOOSE k \in 1..Len(calls) :
    \/ calls[k].name = name
    \/ \E j \in 1..Len(calls[k].aliases) : calls[k].aliases[j] = name

\* The heap of the run that constructs the same accumulators and delivers
\* the first k occurrences of log with the same payloads, each of them
\* through the canonical name of the flag it names.
RECURSIVE CanonicalRun(_)
CanonicalRun(k) ==
  IF k = 0 THEN [v \in 1..Len(heap) |-> [heap[v] EXCEPT !.args = <<>>]]
  ELSE Set(CanonicalRun(k - 1), Lookup(calls[CallOf(log[k].name)].name),
           log[k].s).heap

\* The registrations a constructor call has made so far: formal from
\* position base + 1 up to the next call's first registration.
LastReg(k) == IF k < Len(calls) THEN calls[k + 1].base ELSE Len(formal)
NRegs(k) == LastReg(k) - calls[k].base

\* ---------------------------------------------------------------- C1
\* C1: for an accumulator built by String/StringSet, Args() is exactly the
\* sequence of payloads Set was called with, in call order, duplicates and
\* empty strings kept, and NArg() is their number.
C1_CollectingKeepsOrder ==
  \A k \in 1..Len(calls) :
    calls[k].ctor = "String" =>
      /\ Args(heap[calls[k].v]) = Delivered(calls[k].v)
      /\ NArg(heap[calls[k].v]) = Len(Delivered(calls[k].v))

\* A collecting accumulator that received "parse", "" in that order.
C1_Witness ==
  \E k \in 1..Len(calls) :
    /\ calls[k].ctor = "String"
    /\ Delivered(calls[k].v) = <<"parse", "">>

\* ---------------------------------------------------------------- C2
\* C2: for an accumulator built by Bool/BoolSet, NArg() is the number of
\* Set calls and Args() is empty, whatever payloads the calls carried.
C2_CountingCounts ==
  \A k \in 1..Len(calls) :
    calls[k].ctor = "Bool" =>
      /\ NArg(heap[calls[k].v]) = Len(Delivered(calls[k].v))
      /\ Args(heap[calls[k].v]) = <<>>

\* A counting accumulator, returned by its constructor, that received two
\* occurrences, one with a non-empty payload.
C2_Witness ==
  \E k \in 1..Len(calls) :
    /\ calls[k].ctor = "Bool"
    /\ calls[k].done
    /\ Len(Delivered(calls[k].v)) = 2
    /\ \E i \in 1..2 : Delivered(calls[k].v)[i] = "parse"

\* ---------------------------------------------------------------- C3
\* C3: the accumulators end with the same Args() and NArg() as in the run
\* that delivers the same payloads through the canonical names only.
C3_AliasIndifferent ==
  frame.pc = "idle" =>
    \A k \in 1..Len(calls) :
      LET canon == CanonicalRun(Len(log))[calls[k].v]
      IN /\ Args(heap[calls[k].v]) = Args(canon)
         /\ NArg(heap[calls[k].v]) = NArg(canon)

\* An accumulator that received one occurrence through an alias and one
\* through its canonical name.
C3_Witness ==
  /\ frame.pc = "idle"
  /\ \E i, j \in 1..Len(log) :
       /\ log[i].name \in AliasNames
       /\ log[j].name \in Names
       /\ CallOf(log[i].name) = CallOf(log[j].name)

\* ---------------------------------------------------------------- C4
\* C4: String() returns the default value the constructor was given, in
\* every state and in either mode.
C4_DisplayIsDefault ==
  \A k \in 1..Len(calls) : String(heap[calls[k].v]) = calls[k].value

\* Both modes, each after a Set with a payload that is not its default.
C4_Witness ==
  \E k, m \in 1..Len(calls) :
    /\ calls[k].ctor = "String" /\ Len(Delivered(calls[k].v)) > 0
    /\ calls[m].ctor = "Bool" /\ Len(Delivered(calls[m].v)) > 0

\* ---------------------------------------------------------------- C5
\* C5: the usage text of every registered alias is the output of the
\* function AliasUsage held when the constructor that registered it was
\* called, whatever AliasUsage has been assigned since.
C5_AliasTextEager ==
  \A k \in 1..Len(calls) :
    \A j \in 1..Len(calls[k].aliases) :
      j + 1 <= NRegs(k) =>
        formal[calls[k].base + 1 + j].usage =
          ApplyHook(calls[k].hook, calls[k].name, calls[k].aliases[j])

\* Two accumulators with aliases, constructed under different functions,
\* the first one's before the assignment that the second one's follows.
C5_Witness ==
  /\ Len(calls) = 2
  /\ calls[2].done
  /\ Len(calls[1].aliases) > 0
  /\ Len(calls[2].aliases) > 0
  /\ calls[1].hook # calls[2].hook
  /\ AliasUsage = calls[2].hook

\* ---------------------------------------------------------------- C6
\* C6: a constructor call with k aliases that has returned made exactly
\* 1 + k Flagger calls, all with the Value it returned: the canonical name
\* with the caller's usage text, then the aliases in the order given, each
\* with the hook's text, "Alias for <canonical name>" under the default.
C6_Registrations ==
  \A k \in 1..Len(calls) :
    calls[k].done =>
      /\ NRegs(k) = 1 + Len(calls[k].aliases)
      /\ formal[calls[k].base + 1] =
           [val |-> calls[k].v, name |-> calls[k].name, usage |-> calls[k].usage]
      /\ \A j \in 1..Len(calls[k].aliases) :
           LET e == formal[calls[k].base + 1 + j]
           IN /\ e.val = calls[k].v
              /\ e.name = calls[k].aliases[j]
              /\ calls[k].hook = "default" =>
                   e.usage = "Alias for " \o calls[k].name
              /\ calls[k].hook = "custom" =>
                   e.usage = "-" \o e.name \o " is short for -" \o calls[k].name

\* A returned constructor call with two aliases under the default hook.
C6_Witness ==
  \E k \in 1..Len(calls) :
    /\ calls[k].done
    /\ Len(calls[k].aliases) = 2
    /\ calls[k].hook = "default"

\* ---------------------------------------------------------------- C7
\* C7: Set returns nil for every payload, in either mode, and the call is
\* recorded: args holds one element per Set call made on the Value.
C7_SetNeverFails ==
  /\ ret.op = "Set" => ret.val = "nil"
  /\ \A v \in 1..Len(heap) : Len(heap[v].args) = Len(Delivered(v))

\* Set has just been called with the empty string on a counting
\* accumulator that had received an occurrence before.
C7_Witness ==
  /\ ret.op = "Set"
  /\ Len(log) > 1
  /\ log[Len(log)].s = ""
  /\ log[Len(log)].v = ret.v
  /\ heap[ret.v].isBool
  /\ Len(heap[ret.v].args) > 1

\* ---------------------------------------------------------------- C8
\* C8: IsBoolFlag() returns the same value in every state from the first
\* Flagger call on: true for an accumulator built by Bool/BoolSet, false
\* for one built by String/StringSet.
C8_ModeFixedAtConstruction ==
  ret.op = "IsBoolFlag" =>
    ret.val = (calls[CHOOSE k \in 1..Len(calls) : calls[k].v = ret.v].ctor = "Bool")

\* ---------------------------------------------------------------- C9
\* C9: a call of String(), IsBoolFlag(), Args() or NArg() leaves every
\* field of every Value unchanged; a Set call leaves val and isBool of its
\* Value unchanged and changes args only by appending its payload at the
\* end.  So the length of args is the number of Set calls made on the Value.
C9_OnlySetMutates ==
  /\ [][/\ ( /\ ret'.op \in {"String", "IsBoolFlag", "Args", "NArg"}
              /\ (ret'.op # ret.op \/ ret'.v # ret.v \/ ret'.val # ret.val) ) =>
             heap' = heap
        /\ Len(log') = Len(log) + 1 =>
             LET e == log'[Len(log')]
             IN /\ heap'[e.v].val = heap[e.v].val
                /\ heap'[e.v].isBool = heap[e.v].isBool
                /\ heap'[e.v].args = heap[e.v].args \o <<e.s>>]_vars
  /\ [](\A v \in 1..Len(heap) : NArg(heap[v]) = Len(Delivered(v)))

\* Args() has just returned two collected arguments, which are still there.
C9_Witness ==
  /\ ret.op = "Args"
  /\ Len(ret.val) = 2
  /\ heap[ret.v].args = ret.val

\* ---------------------------------------------------------------- C10
\* C10: a Set call dispatched to one accumulator leaves Args(), NArg(),
\* String() and IsBoolFlag() of every other accumulator unchanged.
C10_Independent ==
  [][Len(log') = Len(log) + 1 =>
       \A w \in 1..Len(heap) :
         w # log'[Len(log')].v =>
           /\ Args(heap'[w]) = Args(heap[w])
           /\ NArg(heap'[w]) = NArg(heap[w])
           /\ String(heap'[w]) = String(heap[w])
           /\ IsBoolFlag(heap'[w]) = IsBoolFlag(heap[w])]_vars

\* A collecting accumulator that received an occurrence, and then a
\* counting one that received the next.
C10_Witness ==
  /\ Len(heap) = 2
  /\ Len(log) = 2
  /\ log[2].v # log[1].v
  /\ ~heap[log[1].v].isBool
  /\ heap[log[2].v].isBool
  /\ heap[log[1].v].args = <<log[1].s>>

====
